---- MODULE Spec2Model ----
(***************************************************************************)
(* Vote admission of the AI Art Arena: POST /api/vote                      *)
(* (src/app/api/vote/route.ts), the Upstash rate limiter it calls          *)
(* (lib/security/ratelimit.ts, src/unnamed/part_000) and the Postgres      *)
(* schema, trigger, row-level-security policies and has_user_voted         *)
(* function it runs against (src/supabase/migrations, src/unnamed/part_004)*)
(*                                                                         *)
(* One request is one slot of `req`; a handler is cut into steps at its    *)
(* awaits on the limiter and the store, so that requests interleave there. *)
(***************************************************************************)
EXTENDS Integers, Sequences, FiniteSets, TLC

\* ------------------------------------------------------------------ bounds
NumReq == 2          \* requests of one run
MaxTime == 4         \* the clock stops here (SpecRace)
MaxCalls == 3        \* calls of handleVote on one mounted interface
Horizon == 1         \* the clock stops here (Spec)

\* ------------------------------------------------- program constants, scaled
Window == 3          \* '24 h', in ticks of 8 hours
Tokens == 1          \* slidingWindow(1, ...)
ContestEnd == 4      \* end_date of the active contest
ApiTokens == 1       \* apiRateLimit: slidingWindow(100, '1 m'), the quota scaled

Times == 0..MaxTime

\* ------------------------------------------------------------- value spaces
NoUser == "null"                 \* user?.id || null
Missing == "undefined"           \* field absent from the body
None == "none"                   \* header absent: headers.get() = null

Users == {"u1", "adm"}           \* accounts; "adm" carries the JWT role 'admin'
Addresses == {"ip1", "ip2"}
ContestIds == {"c1", "c2"}       \* rows of contests
ArtworkIds == {"a1", "a2"}       \* rows of artworks
\* strings that match uuidRegex; "cX" and "aX" name no row
UUIDs == ContestIds \cup ArtworkIds \cup {"cX", "aX"}
\* what a body field may hold
FieldValues == UUIDs \cup {Missing, "", "not-a-uuid"}

VARIABLES now, contests, artworks, votes, rl, req, dom, adminReq, ui
vars == <<now, contests, artworks, votes, rl, req, dom, adminReq, ui>>

\* ---------------------------------------------------------------- helpers
\* a validation that lets every string through
IsAnything(s) == TRUE

\* uuidRegex.test(s)
IsUUID(s) == s \in UUIDs

\* !x for a body field: undefined and the empty string are falsy
Falsy(s) == s \in {Missing, ""}

\* sha256(clientIP + salt).slice(0, 32): one value per address, never the
\* address itself
hashIP(ip) == <<"sha256", ip>>

\* a resolver that looks at x-real-ip before cf-connecting-ip
getClientIPRealFirst(h) ==
  IF h.xff # <<>> THEN Head(h.xff)
  ELSE IF h.realip # None /\ h.realip # "" THEN h.realip
  ELSE IF h.cf # None /\ h.cf # "" THEN h.cf
  ELSE IF h.ip # None /\ h.ip # "" THEN h.ip
  ELSE "unknown"

\* getClientIP: first entry of x-forwarded-for, else cf-connecting-ip, else
\* x-real-ip, else request.ip, else 'unknown'.  An empty header is falsy.
\* h.xff is the sequence of the entries of x-forwarded-for, <<>> when the
\* header is absent or empty.
getClientIP(h) ==
  IF h.xff # <<>> THEN Head(h.xff)
  ELSE IF h.cf # None /\ h.cf # "" THEN h.cf
  ELSE IF h.realip # None /\ h.realip # "" THEN h.realip
  ELSE IF h.ip # None /\ h.ip # "" THEN h.ip
  ELSE "unknown"

\* getVoteRateLimitKey: `${ip}:${contestId}`
getVoteRateLimitKey(ip, contestId) == <<ip, contestId>>

\* role claim of the request's JWT (auth.jwt() ->> 'role')
JwtRole(user) ==
  IF user = NoUser THEN "anon" ELSE IF user = "adm" THEN "admin" ELSE "authenticated"

ClientIPs == Addresses \cup {"unknown"}
RlKeys == ClientIPs \X FieldValues
WindowIdx == 0..((MaxTime + Horizon) \div Window)

\* ------------------------------------------------ the rate limiter (Upstash)
\* Ratelimit.slidingWindow(Tokens, Window): time is cut into windows of length
\* Window; the requests of the previous window count weighted by the part of
\* it that the rolling window still covers.  counts[key][w] is the counter of
\* window w; it is incremented only when a request is admitted.
RlCount(counts, key, w) == IF w \in WindowIdx THEN counts[key][w] ELSE 0

RlWeightedPrev(counts, key, t) ==
  (RlCount(counts, key, (t \div Window) - 1) * (Window - (t % Window))) \div Window

\* a limiter that admits every request
slidingWindowNeverBlocked(counts, key, t) == FALSE

\* success = false
slidingWindowBlocked(counts, key, t) ==
  RlWeightedPrev(counts, key, t) + RlCount(counts, key, t \div Window) >= Tokens

\* a limiter that does not count the request it admits
slidingWindowNoCount(counts, key, t) == counts

\* counters after limit(key) at time t
slidingWindowCounts(counts, key, t) ==
  IF slidingWindowBlocked(counts, key, t) THEN counts
  ELSE [counts EXCEPT ![key][t \div Window] = @ + 1]

\* { success, limit, remaining, reset } of limit(key) at time t
slidingWindowResult(counts, key, t) ==
  [success |-> ~slidingWindowBlocked(counts, key, t),
   limit |-> Tokens,
   remaining |-> IF slidingWindowBlocked(counts, key, t) THEN 0
                 ELSE Tokens - (RlWeightedPrev(counts, key, t)
                                + RlCount(counts, key, t \div Window) + 1),
   reset |-> ((t \div Window) + 1) * Window]

\* ------------------------------------------------------ the store (Postgres)
\* the votes table without idx_votes_unique_user_contest
NoUniqueUserContest(vs, row) == FALSE

\* the votes table without idx_votes_unique_ip_contest
NoUniqueIpContest(vs, row) == FALSE

\* idx_votes_unique_user_contest: UNIQUE (user_id, contest_id) WHERE user_id IS NOT NULL
ViolatesUniqueUserContest(vs, row) ==
  /\ row.user_id # NoUser
  /\ \E v \in vs : v.user_id = row.user_id /\ v.contest_id = row.contest_id

\* idx_votes_unique_ip_contest: UNIQUE (ip_hash, contest_id)
ViolatesUniqueIpContest(vs, row) ==
  \E v \in vs : v.ip_hash = row.ip_hash /\ v.contest_id = row.contest_id

\* an advisory check that finds no vote
has_user_votedNever(vs, p_contest_id, p_user_id, p_ip_hash) == FALSE

\* has_user_voted(p_contest_id, p_user_id, p_ip_hash), SECURITY DEFINER:
\* with a user_id only the account is looked up, else the ip_hash
has_user_voted(vs, p_contest_id, p_user_id, p_ip_hash) ==
  IF p_user_id # NoUser
    THEN \E v \in vs : v.contest_id = p_contest_id /\ v.user_id = p_user_id
    ELSE \E v \in vs : v.contest_id = p_contest_id /\ v.ip_hash = p_ip_hash

\* policy "Public can view active and archived contests" (FOR SELECT)
RlsContestVisible(row) == row.status \in {"active", "archived"}

\* policy "Admins can update artworks" (FOR UPDATE): auth.jwt() ->> 'role' = 'admin'
RlsArtworkUpdatable(role) == role = "admin"

\* a trigger that takes one from the count
update_artwork_vote_countDown(arts, row, role) ==
  IF row.artwork_id \in DOMAIN arts /\ RlsArtworkUpdatable(role)
    THEN [arts EXCEPT ![row.artwork_id].vote_count = @ - 1]
    ELSE arts

\* trigger maintain_artwork_vote_count, AFTER INSERT ON votes FOR EACH ROW.
\* update_artwork_vote_count is not SECURITY DEFINER: its UPDATE runs as the
\* role that inserted the vote and reaches only the rows that role may update.
update_artwork_vote_count(arts, row, role) ==
  IF row.artwork_id \in DOMAIN arts /\ RlsArtworkUpdatable(role)
    THEN [arts EXCEPT ![row.artwork_id].vote_count = @ + 1]
    ELSE arts

\* from('contests').select('status, end_date').eq('id', id).single()
\* the rows returned: .single() yields data = null unless it is exactly one
SelectContest(cs, id) ==
  {cs[c] : c \in {x \in DOMAIN cs : x = id /\ RlsContestVisible(cs[x])}}

\* from('artworks').select(...).eq('id', id).single(); policy "Public can view all artworks"
SelectArtwork(arts, id) ==
  {arts[a] : a \in {x \in DOMAIN arts : x = id}}

\* ------------------------------------------------------------- responses
Response(status, error) == [status |-> status, error |-> error]

MissingFields == Response(400, "Missing required fields: artwork_id and contest_id")
InvalidUUID == Response(400, "Invalid UUID format for artwork_id or contest_id")
AlreadyVoted == Response(409, "You have already voted on this contest")
ContestNotFound == Response(404, "Contest not found")
NotAccepting == Response(400, "This contest is not currently accepting votes")
ContestEnded == Response(400, "This contest has ended")
ArtworkNotFound == Response(404, "Artwork not found")
WrongContest == Response(400, "Artwork does not belong to this contest")
InsertFailed == Response(500, "Failed to submit vote. Please try again.")
Unexpected == Response(500, "An unexpected error occurred. Please try again.")
\* a handler that answers a request the limiter did not admit as already voted
TooManyAsConflict(res) == AlreadyVoted

TooManyRequests(res) ==
  [status |-> 429, error |-> "You can only vote once per 24 hours",
   resetAt |-> res.reset, limit |-> res.limit, remaining |-> 0]
Success(count, remaining) ==
  [status |-> 200, error |-> "", voteCount |-> count, remaining |-> remaining - 1]
NoResponse == Response(0, "")

\* the outcome classes of the request boundary
Class(resp) ==
  CASE resp.status = 200 -> "accepted"
    [] resp.status = 429 -> "rate-limited"
    [] resp.status = 409 -> "already-voted"
    [] resp.status = 404 -> "not-found"
    [] resp.status = 500 -> "internal-error"
    [] resp = MissingFields \/ resp = InvalidUUID -> "malformed"
    [] resp = WrongContest -> "mismatch"
    [] OTHER -> "contest-not-open"

\* ------------------------------------------------------------------ state
\* now        the clock (Date.now(), NOW())
\* contests   table contests: id -> [status, end_date]
\* artworks   table artworks: id -> [contest_id, vote_count]
\* votes      table votes: a set of rows [id, artwork_id, contest_id, user_id, ip_hash]
\* rl         the limiter's counters in Redis: key -> window -> count
\* req        the requests: slot -> the handler's position and locals
\* dom        the inputs the clients of this run send and the rows the run
\*            starts with (fixed by Init)
\* A request also records, for the properties, its headers (hdr), when it
\* arrived (at), the
\* requests already answered then (prior, kept in the runs whose properties
\* speak of a repeated request), the calls it made (ops) and those that
\* failed (failed).
IdleRequest ==
  [pc |-> "idle",
   body |-> [json |-> FALSE, artwork_id |-> Missing, contest_id |-> Missing],
   hdr |-> [xff |-> <<>>, cf |-> None, realip |-> None, ip |-> None],
   clientIP |-> None, ipHash |-> <<>>, user |-> NoUser,
   at |-> 0, prior |-> {}, success |-> FALSE, remaining |-> 0,
   ops |-> <<>>, failed |-> {}, resp |-> NoResponse]

Bodies ==
  {[json |-> FALSE, artwork_id |-> Missing, contest_id |-> Missing]}
    \cup [json : {TRUE}, artwork_id : FieldValues, contest_id : FieldValues]

Header(xff, cf, realip, ip) == [xff |-> xff, cf |-> cf, realip |-> realip, ip |-> ip]

\* a body of POST /api/admin/contests: valid says whether it passes
\* CreateContestSchema
AdminBody(valid, week_number, start_date, end_date, status) ==
  [valid |-> valid, week_number |-> week_number, start_date |-> start_date,
   end_date |-> end_date, status |-> status]

\* the bodies the admin sends: one that fails the schema, and for week 1 (on
\* record) and week 3 (new) a contest 'active' or 'archived' whose end_date
\* is after its start_date or equal to it
AdminBodies ==
  {AdminBody(FALSE, 1, 0, 0, "active")}
    \cup {AdminBody(TRUE, w, 0, e, st) :
            w \in {1, 3}, e \in {0, ContestEnd}, st \in {"active", "archived"}}

\* the ids the store generates for the contest and the artworks of the k-th
\* admin request (gen_random_uuid())
NewContestId == <<"c3", "c4", "c5", "c6">>
NewArtworkIds == <<{"a3", "a4"}, {"a5", "a6"}, {"a7", "a8"}, {"a9", "a10"}>>

\* an admin request that has not arrived
IdleAdminRequest ==
  [pc |-> "idle", body |-> AdminBody(FALSE, 0, 0, 0, ""), contest |-> None, status |-> 0]

\* VotingInterface as mounted: useState(null), the vote counts of the props
\* (0 as in the test data), useTransition not pending; `seen` holds the state
\* values of the last render, which the handlers of that render close over
MountedInterface ==
  [votedForId |-> None,
   artworkVotes |-> [a \in ArtworkIds |-> 0],
   isPending |-> FALSE,
   seen |-> [votedForId |-> None, artworkVotes |-> [a \in ArtworkIds |-> 0],
             isPending |-> FALSE],
   fetches |-> {},
   calls |-> 0]

InitStore ==
  /\ now = 0
  /\ contests \in {[c \in ContestIds |->
                     IF c = "c1"
                       THEN [status |-> "active", end_date |-> dom.c1end, week_number |-> 1]
                       ELSE [status |-> row.status, end_date |-> row.end_date,
                             week_number |-> 2]] : row \in dom.c2}
  /\ artworks = [a \in ArtworkIds |->
                  [contest_id |-> IF a = "a1" THEN "c1" ELSE "c2", vote_count |-> 0]]
  /\ votes = dom.votes
  /\ rl = [k \in RlKeys |-> [w \in WindowIdx |-> IF k \in dom.counted /\ w = 0 THEN 1 ELSE 0]]
  /\ req = [r \in 1..NumReq |-> IdleRequest]
  /\ adminReq = [k \in 1..NumReq |-> IdleAdminRequest]
  /\ ui = MountedInterface

\* every kind of request, one address per header source
DomAll ==
  [bodies |-> {b \in Bodies : b.json =>
                 <<b.artwork_id, b.contest_id>> \in
                   {<<Missing, "c1">>, <<"a1", "">>, <<"not-a-uuid", "c1">>,
                    <<"a1", "c1">>, <<"a2", "c1">>, <<"aX", "c1">>,
                    <<"a2", "c2">>, <<"a1", "cX">>}},
   headers |-> {Header(<<"ip1", "ip2">>, None, "ip2", None)},
   users |-> {NoUser},
   c1end |-> ContestEnd,
   c2 |-> {[status |-> "upcoming", end_date |-> ContestEnd],
           [status |-> "archived", end_date |-> 0],
           [status |-> "active", end_date |-> 0]},
   faults |-> TRUE,
   horizon |-> Horizon,
   votes |-> {}, counted |-> {}, track |-> FALSE]

\* votes for the open contest, for its artwork or for an artwork of another
\* contest, without a session or with the admin account's, from two addresses
DomRace ==
  [bodies |-> {[json |-> TRUE, artwork_id |-> "a1", contest_id |-> "c1"],
               [json |-> TRUE, artwork_id |-> "a2", contest_id |-> "c1"]},
   headers |-> {Header(<<>>, "ip1", None, None), Header(<<>>, None, None, "ip2")},
   users |-> {NoUser, "adm"},
   c1end |-> ContestEnd,
   c2 |-> {[status |-> "archived", end_date |-> 0]},
   faults |-> FALSE,
   horizon |-> MaxTime,
   votes |-> {}, counted |-> {}, track |-> FALSE]

\* the vote account u1 cast from address ip1 at time 0, as the handler
\* recorded it
CastVote ==
  [id |-> 0, artwork_id |-> "a1", contest_id |-> "c1",
   user_id |-> "u1", ip_hash |-> hashIP("ip1")]

\* the open contest after account u1 voted from address ip1 at time 0: the
\* vote is on record and the limiter has counted the request
DomRevote ==
  [bodies |-> {[json |-> TRUE, artwork_id |-> "a1", contest_id |-> "c1"]},
   headers |-> {Header(<<>>, "ip1", None, None), Header(<<>>, None, None, "ip2")},
   users |-> {NoUser, "u1", "adm"},
   c1end |-> ContestEnd,
   c2 |-> {[status |-> "archived", end_date |-> 0]},
   faults |-> FALSE,
   horizon |-> MaxTime,
   votes |-> {CastVote},
   counted |-> {getVoteRateLimitKey("ip1", "c1")},
   track |-> TRUE]

\* one vote for the open contest with every source of the client address:
\* x-forwarded-for, cf-connecting-ip, x-real-ip, request.ip, none of them,
\* and all of them empty
DomHeaders ==
  [bodies |-> {[json |-> TRUE, artwork_id |-> "a1", contest_id |-> "c1"]},
   headers |-> {Header(<<"ip1", "ip2">>, "ip2", "ip2", "ip2"),
                Header(<<>>, "ip1", "ip2", "ip2"),
                Header(<<>>, None, "ip1", "ip2"),
                Header(<<>>, None, None, "ip1"),
                Header(<<>>, None, None, None),
                Header(<<>>, "", "", "")},
   users |-> {NoUser},
   c1end |-> ContestEnd,
   c2 |-> {[status |-> "archived", end_date |-> 0]},
   faults |-> FALSE,
   horizon |-> MaxTime,
   votes |-> {}, counted |-> {}, track |-> TRUE]

\* votes for a contest whose end_date (time 1) passes while requests are
\* being handled
DomClose ==
  [bodies |-> {[json |-> TRUE, artwork_id |-> "a1", contest_id |-> "c1"]},
   headers |-> {Header(<<>>, "ip1", None, None), Header(<<>>, None, None, "ip2")},
   users |-> {NoUser},
   c1end |-> 1,
   c2 |-> {[status |-> "archived", end_date |-> 0]},
   faults |-> FALSE,
   horizon |-> MaxTime,
   votes |-> {},
   counted |-> {},
   track |-> FALSE]

\* requests from one address with backends that may fail: a body that is
\* not JSON, a valid vote, a vote for a contest that is not open, a vote for
\* an artwork that does not exist
DomLive ==
  [bodies |-> {b \in Bodies : b.json =>
                 <<b.artwork_id, b.contest_id>> \in
                   {<<"a1", "c1">>, <<"a2", "c2">>, <<"aX", "c1">>}},
   headers |-> {Header(<<>>, "ip1", None, None)},
   users |-> {NoUser},
   c1end |-> ContestEnd,
   c2 |-> {[status |-> "upcoming", end_date |-> ContestEnd]},
   faults |-> TRUE,
   horizon |-> Horizon,
   votes |-> {}, counted |-> {}, track |-> FALSE]

Init == dom = DomAll /\ InitStore
InitRace == dom = DomRace /\ InitStore
InitRevote == dom = DomRevote /\ InitStore
InitHeaders == dom = DomHeaders /\ InitStore
InitClose == dom = DomClose /\ InitStore
InitLive == dom = DomLive /\ InitStore

Slots == DOMAIN req

\* ---------------------------------------------------------------- actions
\* the request ends with response resp
Finish(rec, resp) == [rec EXCEPT !.pc = "done", !.resp = resp]

Did(rec, op) == [rec EXCEPT !.ops = Append(@, op)]
Failed(rec, op) == [rec EXCEPT !.ops = Append(@, op), !.failed = @ \cup {op}]

\* a handler that goes on to the store whatever the limiter answered
AfterLimitNoStop(rec, res) ==
  [rec EXCEPT !.pc = "voted", !.success = res.success,
              !.remaining = res.remaining, !.ipHash = hashIP(rec.clientIP)]

\* route.ts 76-104: the limiter answered res.  A request it did not admit
\* ends with 429; an admitted one hashes its address and goes on to the store.
AfterLimit(rec, res) ==
  IF ~res.success
    THEN Finish([rec EXCEPT !.success = FALSE, !.remaining = res.remaining],
                TooManyRequests(res))
    ELSE [rec EXCEPT !.pc = "voted", !.success = TRUE,
                     !.remaining = res.remaining, !.ipHash = hashIP(rec.clientIP)]

\* a handler that lets the request through when the limiter cannot be reached
LimiterDownOpen(rec) ==
  [rec EXCEPT !.pc = "voted", !.ipHash = hashIP(rec.clientIP)]

\* route.ts 220-228: limit() rejected because Redis is unreachable; the catch
\* block answers 500
LimiterDown(rec) == Finish(rec, Unexpected)

\* route.ts 41-91: parse and validate the body, resolve the address, ask the
\* limiter.  up = FALSE: the limiter's Redis is unreachable and limit() rejects.
Start(r) ==
  /\ req[r].pc = "idle"
  /\ \A q \in Slots : q < r => req[q].pc # "idle"    \* slots are taken in order
  /\ \E b \in dom.bodies, h \in dom.headers, up \in {TRUE} \cup {~dom.faults} :
       LET rec == [req[r] EXCEPT !.body = b,
                                 !.prior = IF dom.track
                                             THEN {p \in Slots : req[p].pc = "done"}
                                             ELSE {}]
           key == getVoteRateLimitKey(getClientIP(h), b.contest_id)
           called == [rec EXCEPT !.hdr = h, !.clientIP = getClientIP(h), !.at = now]
       IN  IF ~b.json
             THEN /\ req' = [req EXCEPT ![r] = Finish(rec, Unexpected)]
                  /\ rl' = rl
           ELSE IF Falsy(b.artwork_id) \/ Falsy(b.contest_id)
             THEN /\ req' = [req EXCEPT ![r] = Finish(rec, MissingFields)]
                  /\ rl' = rl
           ELSE IF ~IsUUID(b.artwork_id) \/ ~IsUUID(b.contest_id)
             THEN /\ req' = [req EXCEPT ![r] = Finish(rec, InvalidUUID)]
                  /\ rl' = rl
           ELSE IF ~up
             THEN /\ req' = [req EXCEPT ![r] =
                               LimiterDown(Failed(called, "ratelimit.limit"))]
                  /\ rl' = rl
           ELSE /\ req' = [req EXCEPT ![r] =
                             AfterLimit(Did(called, "ratelimit.limit"),
                                        slidingWindowResult(rl, key, now))]
                /\ rl' = slidingWindowCounts(rl, key, now)
  /\ UNCHANGED <<now, contests, artworks, votes, dom, adminReq, ui>>

\* outcomes of one store call: TRUE it answers, FALSE it fails and supabase-js
\* returns { data: null, error }
StoreUp == {TRUE} \cup {~dom.faults}

\* route.ts 106-129: createClient, auth.getUser, rpc has_user_voted.
\* A failed rpc leaves hasVoted = null, which is falsy.
CheckVoted(r) ==
  /\ req[r].pc = "voted"
  /\ \E u \in dom.users, up \in StoreUp :
       LET rec == [Did(req[r], "auth.getUser") EXCEPT !.user = u]
           hasVoted == has_user_voted(votes, rec.body.contest_id, u, rec.ipHash)
       IN  IF ~up
             THEN req' = [req EXCEPT ![r] =
                            [Failed(rec, "rpc.has_user_voted") EXCEPT !.pc = "contest"]]
           ELSE IF hasVoted
             THEN req' = [req EXCEPT ![r] =
                            Finish(Did(rec, "rpc.has_user_voted"), AlreadyVoted)]
           ELSE req' = [req EXCEPT ![r] =
                          [Did(rec, "rpc.has_user_voted") EXCEPT !.pc = "contest"]]
  /\ UNCHANGED <<now, contests, artworks, votes, rl, dom, adminReq, ui>>

\* a handler that reads the contest and checks its status but not its end_date
ReadContestNoEndCheck(r) ==
  /\ req[r].pc = "contest"
  /\ \E up \in StoreUp :
       LET rows == SelectContest(contests, req[r].body.contest_id)
           contest == CHOOSE c \in rows : TRUE
       IN  IF ~up
             THEN req' = [req EXCEPT ![r] =
                            Finish(Failed(req[r], "contests.select"), ContestNotFound)]
           ELSE IF rows = {}
             THEN req' = [req EXCEPT ![r] =
                            Finish(Did(req[r], "contests.select"), ContestNotFound)]
           ELSE IF contest.status # "active"
             THEN req' = [req EXCEPT ![r] =
                            Finish(Did(req[r], "contests.select"), NotAccepting)]
           ELSE req' = [req EXCEPT ![r] =
                          [Did(req[r], "contests.select") EXCEPT !.pc = "artwork"]]
  /\ UNCHANGED <<now, contests, artworks, votes, rl, dom, adminReq, ui>>

\* route.ts 131-155: read the contest, check status and end_date
ReadContest(r) ==
  /\ req[r].pc = "contest"
  /\ \E up \in StoreUp :
       LET rows == SelectContest(contests, req[r].body.contest_id)
           contest == CHOOSE c \in rows : TRUE
       IN  IF ~up
             THEN req' = [req EXCEPT ![r] =
                            Finish(Failed(req[r], "contests.select"), ContestNotFound)]
           ELSE IF rows = {}
             THEN req' = [req EXCEPT ![r] =
                            Finish(Did(req[r], "contests.select"), ContestNotFound)]
           ELSE IF contest.status # "active"
             THEN req' = [req EXCEPT ![r] =
                            Finish(Did(req[r], "contests.select"), NotAccepting)]
           ELSE IF contest.end_date < now
             THEN req' = [req EXCEPT ![r] =
                            Finish(Did(req[r], "contests.select"), ContestEnded)]
           ELSE req' = [req EXCEPT ![r] =
                          [Did(req[r], "contests.select") EXCEPT !.pc = "artwork"]]
  /\ UNCHANGED <<now, contests, artworks, votes, rl, dom, adminReq, ui>>

\* a handler that reads the artwork but does not compare its contest_id
ReadArtworkAnyContest(r) ==
  /\ req[r].pc = "artwork"
  /\ \E up \in StoreUp :
       LET rows == SelectArtwork(artworks, req[r].body.artwork_id)
       IN  IF ~up
             THEN req' = [req EXCEPT ![r] =
                            Finish(Failed(req[r], "artworks.select"), ArtworkNotFound)]
           ELSE IF rows = {}
             THEN req' = [req EXCEPT ![r] =
                            Finish(Did(req[r], "artworks.select"), ArtworkNotFound)]
           ELSE req' = [req EXCEPT ![r] =
                          [Did(req[r], "artworks.select") EXCEPT !.pc = "insert"]]
  /\ UNCHANGED <<now, contests, artworks, votes, rl, dom, adminReq, ui>>

\* route.ts 157-173: read the artwork, check that it belongs to the contest
ReadArtwork(r) ==
  /\ req[r].pc = "artwork"
  /\ \E up \in StoreUp :
       LET rows == SelectArtwork(artworks, req[r].body.artwork_id)
           artwork == CHOOSE a \in rows : TRUE
       IN  IF ~up
             THEN req' = [req EXCEPT ![r] =
                            Finish(Failed(req[r], "artworks.select"), ArtworkNotFound)]
           ELSE IF rows = {}
             THEN req' = [req EXCEPT ![r] =
                            Finish(Did(req[r], "artworks.select"), ArtworkNotFound)]
           ELSE IF artwork.contest_id # req[r].body.contest_id
             THEN req' = [req EXCEPT ![r] =
                            Finish(Did(req[r], "artworks.select"), WrongContest)]
           ELSE req' = [req EXCEPT ![r] =
                          [Did(req[r], "artworks.select") EXCEPT !.pc = "insert"]]
  /\ UNCHANGED <<now, contests, artworks, votes, rl, dom, adminReq, ui>>

\* the row the handler inserts (route.ts 176-182); id stands for gen_random_uuid()
VoteRow(r) ==
  [id |-> r, artwork_id |-> req[r].body.artwork_id,
   contest_id |-> req[r].body.contest_id,
   user_id |-> req[r].user, ip_hash |-> req[r].ipHash]

\* the insert is rejected with code 23505
UniqueViolation(vs, row) ==
  ViolatesUniqueUserContest(vs, row) \/ ViolatesUniqueIpContest(vs, row)

\* an insert that is not atomic: the row and the count stay when the
\* statement reports an error
InsertRowLeaky(vs, arts, row, role, up) ==
  [code |-> IF ~up THEN "XX000" ELSE IF UniqueViolation(vs, row) THEN "23505" ELSE "",
   votes |-> vs \cup {row},
   artworks |-> update_artwork_vote_count(arts, row, role)]

\* INSERT INTO votes: the unique indexes are checked and the trigger runs in
\* the statement's transaction; an insert that fails (up = FALSE) or is
\* rejected leaves no row and no count
InsertRow(vs, arts, row, role, up) ==
  IF ~up
    THEN [code |-> "XX000", votes |-> vs, artworks |-> arts]
  ELSE IF UniqueViolation(vs, row)
    THEN [code |-> "23505", votes |-> vs, artworks |-> arts]
  ELSE [code |-> "", votes |-> vs \cup {row},
        artworks |-> update_artwork_vote_count(arts, row, role)]

\* a handler that answers every insert error, 23505 included, with 500
InsertVoteAnyError(r) ==
  /\ req[r].pc = "insert"
  /\ \E up \in StoreUp :
       LET res == InsertRow(votes, artworks, VoteRow(r), JwtRole(req[r].user), up)
       IN  /\ votes' = res.votes
           /\ artworks' = res.artworks
           /\ req' = [req EXCEPT ![r] =
                        IF res.code = "23505"
                          THEN Finish(Did(req[r], "votes.insert"), InsertFailed)
                        ELSE IF res.code # ""
                          THEN Finish(Failed(req[r], "votes.insert"), InsertFailed)
                        ELSE [Did(req[r], "votes.insert") EXCEPT !.pc = "tally"]]
  /\ UNCHANGED <<now, contests, rl, dom, adminReq, ui>>

\* route.ts 176-204: insert the vote.  up = FALSE: the store fails and the
\* insert returns another error than 23505.
InsertVote(r) ==
  /\ req[r].pc = "insert"
  /\ \E up \in StoreUp :
       LET res == InsertRow(votes, artworks, VoteRow(r), JwtRole(req[r].user), up)
       IN  /\ votes' = res.votes
           /\ artworks' = res.artworks
           /\ req' = [req EXCEPT ![r] =
                        IF res.code = "23505"
                          THEN Finish(Did(req[r], "votes.insert"), AlreadyVoted)
                        ELSE IF res.code # ""
                          THEN Finish(Failed(req[r], "votes.insert"), InsertFailed)
                        ELSE [Did(req[r], "votes.insert") EXCEPT !.pc = "tally"]]
  /\ UNCHANGED <<now, contests, rl, dom, adminReq, ui>>

\* route.ts 206-219: read the new vote_count and answer;
\* updatedArtwork?.vote_count || 0
\* a handler that returns without a response when the tally read fails
ReadTallyNoResponse(r) ==
  /\ req[r].pc = "tally"
  /\ \E up \in StoreUp :
       LET rows == SelectArtwork(artworks, req[r].body.artwork_id)
           updatedArtwork == CHOOSE a \in rows : TRUE
       IN  IF ~up \/ rows = {}
             THEN req' = [req EXCEPT ![r] =
                            [Failed(req[r], "artworks.vote_count") EXCEPT !.pc = "returned"]]
           ELSE req' = [req EXCEPT ![r] =
                          Finish(Did(req[r], "artworks.vote_count"),
                                 Success(updatedArtwork.vote_count, req[r].remaining))]
  /\ UNCHANGED <<now, contests, artworks, votes, rl, dom, adminReq, ui>>

ReadTally(r) ==
  /\ req[r].pc = "tally"
  /\ \E up \in StoreUp :
       LET rows == SelectArtwork(artworks, req[r].body.artwork_id)
           updatedArtwork == CHOOSE a \in rows : TRUE
       IN  IF ~up \/ rows = {}
             THEN req' = [req EXCEPT ![r] =
                            Finish(IF up THEN Did(req[r], "artworks.vote_count")
                                      ELSE Failed(req[r], "artworks.vote_count"),
                                   Success(0, req[r].remaining))]
           ELSE req' = [req EXCEPT ![r] =
                          Finish(Did(req[r], "artworks.vote_count"),
                                 Success(updatedArtwork.vote_count, req[r].remaining))]
  /\ UNCHANGED <<now, contests, artworks, votes, rl, dom, adminReq, ui>>

\* ----------------------------------------- POST /api/admin/contests
AdminFinish(rec, status) == [rec EXCEPT !.pc = "done", !.status = status]

\* admin route.ts 32-61: parse, CreateContestSchema.safeParse, start < end
AdminStart(k) ==
  /\ adminReq[k].pc = "idle"
  /\ \A j \in DOMAIN adminReq : j < k => adminReq[j].pc # "idle"
  /\ \E b \in AdminBodies :
       LET rec == [adminReq[k] EXCEPT !.body = b]
       IN  adminReq' = [adminReq EXCEPT ![k] =
             IF ~b.valid THEN AdminFinish(rec, 400)
             ELSE IF b.start_date >= b.end_date THEN AdminFinish(rec, 400)
             ELSE [rec EXCEPT !.pc = "existing"]]
  /\ UNCHANGED <<now, contests, artworks, votes, rl, req, dom, ui>>

\* admin route.ts 65-77: select('id').eq('week_number', n).maybeSingle();
\* the rows the SELECT policy shows; the error of the read is not looked at
AdminCheckExisting(k) ==
  /\ adminReq[k].pc = "existing"
  /\ \E up \in BOOLEAN :
       LET existing == {c \in DOMAIN contests :
                          /\ contests[c].week_number = adminReq[k].body.week_number
                          /\ RlsContestVisible(contests[c])}
       IN  adminReq' = [adminReq EXCEPT ![k] =
             IF up /\ existing # {} THEN AdminFinish(adminReq[k], 409)
             ELSE [adminReq[k] EXCEPT !.pc = "insert"]]
  /\ UNCHANGED <<now, contests, artworks, votes, rl, req, dom, ui>>

\* admin route.ts 80-100: insert the contest with the status of the body;
\* contests.week_number is UNIQUE
AdminInsertContest(k) ==
  /\ adminReq[k].pc = "insert"
  /\ \E up \in BOOLEAN :
       LET b == adminReq[k].body
           id == NewContestId[k]
           duplicate == \E c \in DOMAIN contests : contests[c].week_number = b.week_number
       IN  IF ~up \/ duplicate
             THEN /\ adminReq' = [adminReq EXCEPT ![k] = AdminFinish(adminReq[k], 500)]
                  /\ contests' = contests
             ELSE /\ contests' =
                       [c \in DOMAIN contests \cup {id} |->
                          IF c = id
                            THEN [status |-> b.status, end_date |-> b.end_date,
                                  week_number |-> b.week_number]
                            ELSE contests[c]]
                  /\ adminReq' = [adminReq EXCEPT ![k] =
                                    [adminReq[k] EXCEPT !.pc = "artworks", !.contest = id]]
  /\ UNCHANGED <<now, artworks, votes, rl, req, dom, ui>>

\* admin route.ts 103-134: insert the artworks; when that fails delete the
\* contest again (the result of the delete is not looked at) and answer 500
AdminInsertArtworks(k) ==
  /\ adminReq[k].pc = "artworks"
  /\ \E up \in BOOLEAN, deleted \in BOOLEAN :
       LET id == adminReq[k].contest
       IN  IF ~up
             THEN /\ contests' = IF deleted
                                   THEN [c \in DOMAIN contests \ {id} |-> contests[c]]
                                   ELSE contests
                  /\ artworks' = artworks
                  /\ adminReq' = [adminReq EXCEPT ![k] = AdminFinish(adminReq[k], 500)]
             ELSE /\ contests' = contests
                  /\ artworks' =
                       [a \in DOMAIN artworks \cup NewArtworkIds[k] |->
                          IF a \in NewArtworkIds[k]
                            THEN [contest_id |-> id, vote_count |-> 0]
                            ELSE artworks[a]]
                  /\ adminReq' = [adminReq EXCEPT ![k] = AdminFinish(adminReq[k], 200)]
  /\ UNCHANGED <<now, votes, rl, req, dom, ui>>

NextAdmin ==
  \/ \E k \in DOMAIN adminReq : AdminStart(k)
  \/ \E k \in DOMAIN adminReq : AdminCheckExisting(k)
  \/ \E k \in DOMAIN adminReq : AdminInsertContest(k)
  \/ \E k \in DOMAIN adminReq : AdminInsertArtworks(k)

\* ------------------------------------------------------- VotingInterface
\* the state values a render shows and its handlers close over
Rendered(u) ==
  [votedForId |-> u.votedForId, artworkVotes |-> u.artworkVotes, isPending |-> u.isPending]

\* handleVote(artworkId) of the last render, ContestHeader.tsx 128-165: the
\* guard reads votedForId and isPending of that render; then the optimistic
\* update, startTransition and the fetch of POST /api/vote
handleVote(artworkId) ==
  /\ ui.calls < MaxCalls
  /\ IF ui.seen.votedForId # None \/ ui.seen.isPending
       THEN ui' = [ui EXCEPT !.calls = @ + 1]
       ELSE ui' = [ui EXCEPT
                     !.calls = @ + 1,
                     !.votedForId = artworkId,
                     !.artworkVotes[artworkId] = @ + 1,
                     !.isPending = TRUE,
                     !.fetches = @ \cup {[id |-> ui.calls + 1, artwork_id |-> artworkId,
                                          previousVoteCount |-> ui.seen.artworkVotes[artworkId]]}]
  /\ UNCHANGED <<now, contests, artworks, votes, rl, req, dom, adminReq>>

\* React renders the component again with the state as it is now
Render ==
  /\ ui.seen # Rendered(ui)
  /\ ui' = [ui EXCEPT !.seen = Rendered(ui)]
  /\ UNCHANGED <<now, contests, artworks, votes, rl, req, dom, adminReq>>

\* ContestHeader.tsx 166-217: the fetch f settles.  A response that is not ok
\* and a network error roll the optimistic update back; an ok response sets
\* the count to data.voteCount when the response carries one.  The transition
\* is pending as long as one of its async functions runs.
FetchSettles(f) ==
  /\ f \in ui.fetches
  /\ \E ok \in BOOLEAN, defined \in BOOLEAN, voteCount \in {0, 1} :
       LET rest == ui.fetches \ {f}
       IN  ui' = [ui EXCEPT
                    !.fetches = rest,
                    !.isPending = rest # {},
                    !.votedForId = IF ok THEN @ ELSE None,
                    !.artworkVotes[f.artwork_id] =
                       IF ~ok THEN f.previousVoteCount
                       ELSE IF defined THEN voteCount ELSE @]
  /\ UNCHANGED <<now, contests, artworks, votes, rl, req, dom, adminReq>>

NextUI ==
  \/ \E a \in ArtworkIds : handleVote(a)
  \/ Render
  \/ \E f \in ui.fetches : FetchSettles(f)

\* time passes
Tick ==
  /\ now < dom.horizon
  /\ now' = now + 1
  /\ UNCHANGED <<contests, artworks, votes, rl, req, dom, adminReq, ui>>

Next ==
  \/ \E r \in Slots : Start(r)
  \/ \E r \in Slots : CheckVoted(r)
  \/ \E r \in Slots : ReadContest(r)
  \/ \E r \in Slots : ReadArtwork(r)
  \/ \E r \in Slots : InsertVote(r)
  \/ \E r \in Slots : ReadTally(r)
  \/ Tick


Spec == Init /\ [][Next]_vars
SpecRace == InitRace /\ [][Next]_vars
SpecRevote == InitRevote /\ [][Next]_vars
SpecHeaders == InitHeaders /\ [][Next]_vars
SpecClose == InitClose /\ [][Next]_vars

\* contest creations by the admin, starting from the contests on record
InitAdmin == dom = DomHeaders /\ InitStore
SpecAdmin == InitAdmin /\ [][NextAdmin]_vars

\* one mounted VotingInterface and the calls of its handleVote
InitUI == dom = DomHeaders /\ InitStore
SpecUI == InitUI /\ [][NextUI]_vars

\* every awaited backend call of a request returns or fails, and the handler
\* then runs on: each step of a request that is under way is eventually taken
Fairness ==
  \A r \in 1..NumReq :
    WF_vars(CheckVoted(r) \/ ReadContest(r) \/ ReadArtwork(r)
              \/ InsertVote(r) \/ ReadTally(r))

SpecLive == InitLive /\ [][Next]_vars /\ Fairness

TypeOK ==
  /\ now \in Times
  /\ \A r \in Slots : req[r].pc \in {"idle", "voted", "contest", "artwork", "insert", "tally", "done"}

\* ================================================================ properties
Done(r) == req[r].pc = "done"
Accepted(r) == Done(r) /\ req[r].resp.status = 200
Called(r, op) == \E i \in DOMAIN req[r].ops : req[r].ops[i] = op
HasRow(r) == \E v \in votes : v.id = r
VotesFor(a) == {v \in votes : v.artwork_id = a}

\* the requests of the run all come from one voter (one address and, where
\* the session was read, one account) and vote for artwork a1 of contest c1
OneVoter ==
  \E ip \in ClientIPs, u \in Users \cup {NoUser} :
    \A r \in Slots : /\ req[r].clientIP = ip
                     /\ Called(r, "auth.getUser") => req[r].user = u
                     /\ req[r].body.artwork_id = "a1" /\ req[r].body.contest_id = "c1"

\* C1: when all the requests of a run carry the same voter identity and vote
\* for the same valid artwork of the open contest, and every backend answers,
\* then once they are all answered exactly one of them is Accepted and the
\* artwork's vote_count is exactly 1 higher than before (it started at 0).
C1_OneAcceptedTallyPlusOne ==
  ((\A r \in Slots : Done(r)) /\ OneVoter /\ dom = DomRace)
    => /\ Cardinality({r \in Slots : Accepted(r)}) = 1
       /\ artworks["a1"].vote_count = 1

\* C2: in every reachable state each artwork's vote_count equals the number
\* of vote rows that reference the artwork.
C2_TallyEqualsVoteRows ==
  \A a \in DOMAIN artworks : artworks[a].vote_count = Cardinality(VotesFor(a))

\* C3: the votes table never holds two votes of one account for one contest.
C3_OneVotePerAccount ==
  \A v \in votes, w \in votes :
    (v.user_id # NoUser /\ v.user_id = w.user_id /\ v.contest_id = w.contest_id)
      => v = w

\* C3 witness: one account voted from two addresses; both requests reached
\* the insert, one was accepted and the other rejected as already voted
C3_Witness ==
  \E r \in Slots, q \in Slots :
    /\ req[r].user # NoUser /\ req[r].user = req[q].user
    /\ req[r].clientIP # req[q].clientIP
    /\ Called(r, "votes.insert") /\ Called(q, "votes.insert")
    /\ Accepted(r) /\ Done(q) /\ req[q].resp = AlreadyVoted

\* C4: the votes table never holds two votes with one ip_hash for one contest,
\* whoever cast them, and every Accepted request has its own row: a second
\* voter from an address that already voted is never Accepted.
C4_OneVotePerIpHash ==
  /\ \A v \in votes, w \in votes :
       (v.ip_hash = w.ip_hash /\ v.contest_id = w.contest_id) => v = w
  /\ \A r \in Slots : Accepted(r) => VoteRow(r) \in votes

\* C4 witness: after an accepted vote from an address, another voter (an
\* account that has not voted) reached the insert from the same address and
\* was rejected as already voted
C4_Witness ==
  \E r \in Slots, q \in Slots :
    /\ Accepted(q)
    /\ req[r].ipHash = req[q].ipHash
    /\ req[r].user # NoUser /\ req[r].user # req[q].user
    /\ Called(r, "votes.insert")
    /\ Done(r) /\ req[r].resp = AlreadyVoted

LimitOnly == <<"ratelimit.limit">>
StoreOps == {"rpc.has_user_voted", "contests.select", "artworks.select",
             "votes.insert", "artworks.vote_count"}
TablesUnchanged == votes' = votes /\ artworks' = artworks
\* request r is answered in this step
Answers(r) == req[r].pc # "done" /\ req'[r].pc = "done"

\* C5: the limiter is the first backend every request calls, and a request
\* the limiter did not admit is answered 429 in that same step: it has made
\* no store call (no has_user_voted, no contest or artwork read, no insert),
\* has no vote row, and the step leaves votes and every vote_count unchanged.
C5_LimiterBeforeStore ==
  /\ [](\A r \in Slots :
          /\ req[r].ops # <<>> => Head(req[r].ops) = "ratelimit.limit"
          /\ (Called(r, "ratelimit.limit") /\ ~req[r].success
                /\ "ratelimit.limit" \notin req[r].failed)
               => (Done(r) /\ req[r].resp.status = 429
                   /\ req[r].ops = LimitOnly /\ ~HasRow(r)))
  /\ [][\A r \in Slots :
          (Answers(r) /\ req'[r].resp.status = 429)
            => (req[r].pc = "idle" /\ TablesUnchanged)]_vars

\* C5 witness: a request was rejected as rate-limited
C5_Witness ==
  \E r \in Slots : Done(r) /\ req[r].resp.status = 429 /\ ~req[r].success

\* a body whose artwork_id or contest_id is missing, empty or not a UUID
BadIds(b) ==
  /\ b.json
  /\ \/ b.artwork_id \in {Missing, ""} \/ b.contest_id \in {Missing, ""}
     \/ b.artwork_id \notin UUIDs \/ b.contest_id \notin UUIDs

\* C6: a request whose artwork_id or contest_id is missing, empty or not a
\* UUID is answered in its first step with one of the two 400 validation
\* responses; that step calls neither the limiter nor the store and leaves
\* the limiter's counters, votes and every vote_count unchanged.
C6_MalformedRejectedFirst ==
  [][\A r \in Slots :
       (req[r].pc = "idle" /\ req'[r].pc # "idle" /\ BadIds(req'[r].body))
         => /\ req'[r].pc = "done"
            /\ req'[r].resp \in {MissingFields, InvalidUUID}
            /\ req'[r].ops = <<>>
            /\ rl' = rl
            /\ TablesUnchanged]_vars

\* C6 witness: one request was rejected for a missing or empty id and one for
\* an id that is no UUID
C6_Witness ==
  \E r \in Slots, q \in Slots :
    /\ Done(r) /\ BadIds(req[r].body) /\ req[r].resp = MissingFields
    /\ Done(q) /\ BadIds(req[q].body) /\ req[q].resp = InvalidUUID

C8_StoreFailureIsInternalError ==
  \A r \in Slots :
    /\ (Done(r) /\ req[r].failed \cap StoreOps # {})
         => req[r].resp.status = 500
    /\ Accepted(r) => HasRow(r)

ResetOf(t) == ((t \div Window) + 1) * Window

SameKey(r, q) ==
  /\ req[q].clientIP = req[r].clientIP
  /\ req[q].body.contest_id = req[r].body.contest_id

SameVoter(r, q) ==
  \/ req[q].clientIP = req[r].clientIP
  \/ /\ Called(r, "auth.getUser") /\ Called(q, "auth.getUser")
     /\ req[r].user # NoUser /\ req[q].user = req[r].user

\* the limiter answered request q (its Redis was reachable)
Limited(q) == Called(q, "ratelimit.limit") /\ "ratelimit.limit" \notin req[q].failed

\* C11: after a voter's request for a contest was Accepted, every request by
\* that voter for that contest that arrives later and less than 24 hours
\* after it is answered 429 (not 409), with remaining 0 and a resetAt later
\* than the time the request arrived.
C11_RepeatIsRateLimited ==
  \A r \in Slots, q \in Slots :
    (/\ Accepted(r) /\ r \in req[q].prior
     /\ SameVoter(r, q) /\ req[q].body.contest_id = req[r].body.contest_id
     /\ Limited(q) /\ Done(q)
     /\ req[q].at < req[r].at + Window)
      => /\ req[q].resp.status = 429
         /\ req[q].resp.remaining = 0
         /\ req[q].resp.resetAt > req[q].at

\* the requests of the run are submissions of one voter for artwork a1 of
\* contest c1: one account (wherever the session was read), or no account and
\* one client address
SharedIdentity ==
  /\ \A r \in Slots : req[r].body.artwork_id = "a1" /\ req[r].body.contest_id = "c1"
  /\ \E u \in Users \cup {NoUser} :
       /\ \A r \in Slots : Called(r, "auth.getUser") => req[r].user = u
       /\ u = NoUser => \A r \in Slots, q \in Slots : req[r].clientIP = req[q].clientIP

\* the requests of the run arrived at the same instant
Simultaneous == \A r \in Slots, q \in Slots : req[r].at = req[q].at

\* every request is answered and contest c1 has been open all the while
AllDone == (\A r \in Slots : Done(r)) /\ now <= contests["c1"].end_date

Resubmits(r, q) ==
  /\ r \in req[q].prior
  /\ req[q].body = req[r].body /\ req[q].clientIP = req[r].clientIP
  /\ Called(q, "auth.getUser") => req[q].user = req[r].user

\* request q arrived while its contest was open
ArrivedOpen(q) ==
  /\ req[q].body.contest_id \in DOMAIN contests
  /\ contests[req[q].body.contest_id].status = "active"
  /\ req[q].at <= contests[req[q].body.contest_id].end_date

\* C13 as stated: a request answered with the already-voted response (409),
\* when sent again while the contest is open, is answered 409 again.
C13_ConflictAgain ==
  \A r \in Slots, q \in Slots :
    (/\ Done(r) /\ req[r].resp = AlreadyVoted
     /\ Resubmits(r, q) /\ ArrivedOpen(q) /\ Done(q))
      => req[q].resp = AlreadyVoted

\* C13 amended: a request answered with the already-voted response (409),
\* when sent again while the contest is open, never records a vote and is
\* never Accepted: it is answered 429 without a store call when the limiter
\* does not admit it, and 409 again when the limiter admits it.
C13_NeverAcceptedAgain ==
  \A r \in Slots, q \in Slots :
    (/\ Done(r) /\ req[r].resp = AlreadyVoted
     /\ Resubmits(r, q) /\ ArrivedOpen(q))
      => /\ ~HasRow(q)
         /\ Done(q) =>
              IF req[q].success
                THEN req[q].resp = AlreadyVoted
                ELSE req[q].resp.status = 429 /\ req[q].ops = LimitOnly

\* C13 witness: a request was answered 409, was sent again after the
\* limiter's quota had come back, and was answered 409 again
C13_Witness ==
  \E r \in Slots, q \in Slots :
    /\ Done(r) /\ req[r].resp = AlreadyVoted
    /\ Resubmits(r, q) /\ ArrivedOpen(q)
    /\ Done(q) /\ req[q].success /\ req[q].resp = AlreadyVoted

\* the contests read of request r answers in this step
ChecksContest(r) ==
  /\ req[r].pc = "contest" /\ req'[r].pc # "contest"
  /\ "contests.select" \notin req'[r].failed

\* C14: a request whose contest check runs at the instant of the contest's
\* end_date (now = end_date, status 'active') is answered in that step as
\* contest-not-open and goes no further towards the insert.
C14_ClosedAtEndDate ==
  [][\A r \in Slots :
       (/\ ChecksContest(r) /\ req'[r].failed = {}
        /\ SelectContest(contests, req[r].body.contest_id) # {}
        /\ \A c \in SelectContest(contests, req[r].body.contest_id) :
             c.status = "active" /\ c.end_date = now)
         => (req'[r].pc = "done" /\ Class(req'[r].resp) = "contest-not-open")]_vars

\* the contest named by request r exists with status 'active'
ContestActive(r) ==
  /\ req[r].body.contest_id \in DOMAIN contests
  /\ contests[req[r].body.contest_id].status = "active"

\* C15: a request gets past the contest check, has a vote row or is Accepted
\* only if its contest exists with status 'active', and it gets past the
\* check only while now has not passed the contest's end_date; a request
\* whose contest is missing, upcoming, archived, or active but past its
\* end_date is answered 400 or 404 at the check, which changes no table.
C15_OnlyOpenContest ==
  /\ [](\A r \in Slots :
          (req[r].pc \in {"artwork", "insert", "tally"} \/ Accepted(r) \/ HasRow(r))
            => ContestActive(r))
  /\ [][\A r \in Slots :
          (req[r].pc = "contest" /\ req'[r].pc # "contest"
             /\ ~(ContestActive(r) /\ contests[req[r].body.contest_id].end_date >= now))
            => /\ req'[r].pc = "done" /\ req'[r].resp.status \in {400, 404}
               /\ TablesUnchanged
               /\ \A v \in votes' : v.id # r]_vars

\* C15 witness: a request for a contest still marked active but past its
\* end_date was rejected as ended, one for a contest that is not active was
\* rejected too
C15_Witness ==
  \E r \in Slots, q \in Slots :
    /\ Done(r) /\ req[r].resp = ContestEnded /\ ContestActive(r) /\ ~HasRow(r)
    /\ Done(q) /\ Called(q, "contests.select") /\ ~ContestActive(q)
    /\ req[q].failed = {} /\ ~HasRow(q)

\* request r names an artwork that exists and belongs to another contest
\* than the one it names
Mismatch(r) ==
  /\ req[r].body.artwork_id \in DOMAIN artworks
  /\ artworks[req[r].body.artwork_id].contest_id # req[r].body.contest_id

\* C16: a request that names an existing artwork of another contest never
\* reaches the insert and never has a vote row, so every vote row's artwork
\* belongs to the row's contest; when its artwork read answers, the request
\* is answered in that step with 400 'Artwork does not belong to this
\* contest', and the step changes no table.
C16_MismatchRejected ==
  /\ [](/\ \A r \in Slots :
             Mismatch(r) => (req[r].pc \notin {"insert", "tally"} /\ ~Accepted(r) /\ ~HasRow(r))
        /\ \A v \in votes : artworks[v.artwork_id].contest_id = v.contest_id)
  /\ [][\A r \in Slots :
          (/\ req[r].pc = "artwork" /\ req'[r].pc # "artwork" /\ Mismatch(r)
           /\ "artworks.select" \notin req'[r].failed)
            => (req'[r].pc = "done" /\ req'[r].resp = WrongContest /\ TablesUnchanged)]_vars

\* C16 witness: a request for the open contest c1 that named artwork a2 of
\* contest c2 was rejected as a mismatch
C16_Witness ==
  \E r \in Slots :
    /\ Mismatch(r) /\ ContestActive(r) /\ req[r].body.contest_id \in DOMAIN contests
    /\ Done(r) /\ req[r].resp = WrongContest /\ ~HasRow(r)

\* C17: the voteCount of every Accepted response counts the vote just
\* recorded: it is at least 1 and at most the number of votes on record for
\* the artwork (votes are never removed, so this is the number recorded at
\* some instant at or after the request's insert).
C17_VoteCountAuthoritative ==
  \A r \in Slots :
    Accepted(r) =>
      /\ req[r].resp.voteCount >= 1
      /\ req[r].resp.voteCount <= Cardinality(VotesFor(req[r].body.artwork_id))

\* C18: the step in which a request's insert is rejected by one of the two
\* unique indexes leaves votes and every vote_count unchanged and answers the
\* request with the response of the has_user_voted check: 409 'You have
\* already voted on this contest'.
C18_DuplicateKeyIsAlreadyVoted ==
  [][\A r \in Slots :
       (/\ req[r].pc = "insert" /\ req'[r].pc # "insert"
        /\ "votes.insert" \notin req'[r].failed
        /\ \/ ViolatesUniqueUserContest(votes, VoteRow(r))
           \/ ViolatesUniqueIpContest(votes, VoteRow(r)))
         => /\ TablesUnchanged
            /\ req'[r].pc = "done" /\ req'[r].resp = AlreadyVoted]_vars

\* C18 witness: the admin account, whose votes the trigger does count, voted
\* twice at once from two addresses; one request was Accepted, the other got
\* past has_user_voted, was rejected by the insert, and the count is 1
C18_Witness ==
  \E r \in Slots, q \in Slots :
    /\ Accepted(q) /\ req[q].user = "adm" /\ req[r].user = "adm"
    /\ Done(r) /\ Called(r, "votes.insert") /\ req[r].resp = AlreadyVoted
    /\ artworks[req[q].body.artwork_id].vote_count = 1

\* C19: two requests with one (client address, contest) key that the limiter
\* both admitted arrived at least one Window (24 hours) apart.
C19_OneAdmissionPerRollingWindow ==
  \A r \in Slots, q \in Slots :
    (/\ r < q /\ SameKey(r, q)
     /\ Limited(r) /\ req[r].success
     /\ Limited(q) /\ req[q].success)
      => req[q].at - req[r].at >= Window

\* the requests that reached the handler from q's client address before q
\* and at the same instant as q (so within one minute of it)
CallsBefore(q) ==
  {r \in Slots : r < q /\ req[r].clientIP = req[q].clientIP /\ req[r].at = req[q].at}

\* C20: a request that arrives when its client address has already made
\* ApiTokens calls within the minute is answered 429 with remaining 0 and a
\* resetAt later than its arrival.  (apiRateLimit is exported by
\* lib/security/ratelimit.ts; no handler calls its limit(), so the only
\* limiter a request meets is voteRateLimit, keyed by address and contest.)
C20_ApiQuotaEnforced ==
  \A q \in Slots :
    (/\ Done(q) /\ req[q].clientIP # None /\ Cardinality(CallsBefore(q)) >= ApiTokens
     /\ \A r \in CallsBefore(q) \cup {q} : req[r].failed = {})    \* every backend answered
      => /\ req[q].resp.status = 429
         /\ req[q].resp.remaining = 0
         /\ req[q].resp.resetAt > req[q].at

\* a header value that is present and not empty
Present(x) == x # None /\ x # ""

\* the handler resolved the client address of request r
Resolved(r) == req[r].clientIP # None

\* C21: the address resolved for a request is the first entry of
\* x-forwarded-for if that header is present, else cf-connecting-ip, else
\* x-real-ip, else request.ip, else 'unknown'; two requests with equal
\* headers resolve to the same address, and for one contest to the same
\* rate-limit key and, once hashed, the same ip_hash.
C21_AddressByPriority ==
  /\ \A r \in Slots :
       Resolved(r) =>
         req[r].clientIP =
           CASE req[r].hdr.xff # <<>> -> req[r].hdr.xff[1]
             [] req[r].hdr.xff = <<>> /\ Present(req[r].hdr.cf) -> req[r].hdr.cf
             [] req[r].hdr.xff = <<>> /\ ~Present(req[r].hdr.cf)
                  /\ Present(req[r].hdr.realip) -> req[r].hdr.realip
             [] req[r].hdr.xff = <<>> /\ ~Present(req[r].hdr.cf)
                  /\ ~Present(req[r].hdr.realip) /\ Present(req[r].hdr.ip) -> req[r].hdr.ip
             [] OTHER -> "unknown"
  /\ \A r \in Slots, q \in Slots :
       (Resolved(r) /\ Resolved(q) /\ req[r].hdr = req[q].hdr)
         => /\ req[r].clientIP = req[q].clientIP
            /\ req[r].body.contest_id = req[q].body.contest_id
                 => getVoteRateLimitKey(req[r].clientIP, req[r].body.contest_id)
                      = getVoteRateLimitKey(req[q].clientIP, req[q].body.contest_id)
            /\ (req[r].success /\ req[q].success) => req[r].ipHash = req[q].ipHash

\* C21 witness: a request that carried cf-connecting-ip and a different
\* x-real-ip and one that carried x-forwarded-for with two entries were both
\* resolved
C21_Witness ==
  \E r \in Slots, q \in Slots :
    /\ Resolved(r) /\ req[r].hdr.xff = <<>>
    /\ Present(req[r].hdr.cf) /\ Present(req[r].hdr.realip)
    /\ req[r].hdr.cf # req[r].hdr.realip
    /\ Resolved(q) /\ Len(req[q].hdr.xff) = 2

\* request r carried no client address at all
NoAddress(r) ==
  /\ Resolved(r) /\ req[r].hdr.xff = <<>>
  /\ ~Present(req[r].hdr.cf) /\ ~Present(req[r].hdr.realip) /\ ~Present(req[r].hdr.ip)

\* C22: a request without any client address resolves to 'unknown' and, once
\* admitted, to the hash of 'unknown'; of the sessionless requests of that
\* kind for one contest at most one is Accepted; and one that arrives after
\* another of them was Accepted is answered 429 without a store call when
\* the limiter does not admit it and is otherwise stopped by has_user_voted
\* with 409, before the insert.
C22_UnknownSharesOneIdentity ==
  /\ \A r \in Slots :
       NoAddress(r) => /\ req[r].clientIP = "unknown"
                       /\ req[r].success => req[r].ipHash = hashIP("unknown")
  /\ \A c \in ContestIds :
       Cardinality({r \in Slots : /\ NoAddress(r) /\ req[r].user = NoUser
                                  /\ req[r].body.contest_id = c /\ Accepted(r)}) <= 1
  /\ \A r \in Slots, q \in Slots :
       (/\ NoAddress(r) /\ NoAddress(q) /\ Accepted(r) /\ r \in req[q].prior
        /\ req[q].body.contest_id = req[r].body.contest_id /\ Done(q))
         => IF req[q].success
              THEN /\ req[q].resp = AlreadyVoted
                   /\ req[q].ops = <<"ratelimit.limit", "auth.getUser", "rpc.has_user_voted">>
              ELSE req[q].resp.status = 429 /\ req[q].ops = LimitOnly

\* C22 witness: after a request without an address was Accepted, another one
\* was admitted by the limiter and stopped by has_user_voted
C22_Witness ==
  \E r \in Slots, q \in Slots :
    /\ NoAddress(r) /\ NoAddress(q) /\ Accepted(r) /\ r \in req[q].prior
    /\ req[r].hdr # req[q].hdr
    /\ Done(q) /\ req[q].success /\ req[q].resp = AlreadyVoted

\* C23: when the advisory eligibility check of a request runs and the ledger
\* holds a vote for (the request's address hash, its contest), the check
\* stops the request with the already-voted answer, also when the request
\* carries an account that has not voted.
C23_AddressCheckedWithAccount ==
  [][\A r \in Slots :
       (/\ req[r].pc = "voted" /\ req'[r].pc # "voted"
        /\ req'[r].failed = {}
        /\ \E v \in votes : /\ v.contest_id = req[r].body.contest_id
                            /\ v.ip_hash = req[r].ipHash)
         => req'[r].resp = AlreadyVoted]_vars

\* C25: no step of a vote submission modifies or removes a vote record that
\* exists, and no step lowers the vote_count of an artwork.
C25_VotesKeptTalliesGrow ==
  [][/\ votes \subseteq votes'
     /\ \A a \in DOMAIN artworks :
          /\ a \in DOMAIN artworks'
          /\ artworks'[a].vote_count >= artworks[a].vote_count]_vars

\* C25 witness: a vote was recorded and counted, and a later submission for
\* the same contest was answered
C25_Witness ==
  \E r \in Slots, q \in Slots :
    /\ Accepted(r) /\ HasRow(r)
    /\ artworks[req[r].body.artwork_id].vote_count = 1
    /\ q # r /\ Done(q) /\ req[q].at > req[r].at
    /\ req[q].body.contest_id = req[r].body.contest_id

\* the number of times operation op occurs in the sequence of operations s
OpCount(s, op) == Cardinality({i \in DOMAIN s : s[i] = op})

\* C26: a request calls the rate limiter at most once and attempts the vote
\* insert at most once, and once it was rejected or one of its backend calls
\* failed it performs no further rate-limiter or store operation.
C26_RejectionTerminal ==
  [][\A r \in Slots :
       /\ OpCount(req'[r].ops, "ratelimit.limit") <= 1
       /\ OpCount(req'[r].ops, "votes.insert") <= 1
       /\ (req[r].resp # NoResponse \/ req[r].failed # {})
            => req'[r].ops = req[r].ops]_vars

\* C28: every vote record names an artwork that exists, and the contest that
\* owns that artwork is the contest the record names.
C28_VoteArtworkInVoteContest ==
  \A v \in votes :
    /\ v.artwork_id \in DOMAIN artworks
    /\ v.contest_id \in DOMAIN contests
    /\ artworks[v.artwork_id].contest_id = v.contest_id

\* C28 witness: the ledger holds the vote of an Accepted request while
\* another request, which named an artwork of another contest than the
\* contest it named, had its artwork read and has no record
C28_Witness ==
  \E r \in Slots, q \in Slots :
    /\ Accepted(r) /\ HasRow(r)
    /\ Mismatch(q) /\ Called(q, "artworks.select") /\ Done(q) /\ ~HasRow(q)

\* C29: a step that records a vote finds the vote's contest 'active' and not
\* past its end_date at the moment of the insert, also when the end_date was
\* reached after the request's contest check.
C29_OpenAtInsert ==
  [][\A v \in votes' \ votes :
       /\ v.contest_id \in DOMAIN contests
       /\ contests[v.contest_id].status = "active"
       /\ ~(contests[v.contest_id].end_date < now)]_vars

\* the outcomes a vote request can end with
Outcomes ==
  {"accepted", "already-voted", "rate-limited", "contest-not-open",
   "not-found", "malformed", "mismatch", "internal-error"}

\* resp is one of the responses of the handler
IsOutcome(resp) ==
  /\ resp # NoResponse
  /\ resp.status \in {200, 400, 404, 409, 429, 500}
  /\ resp.status = 400 =>
       resp \in {MissingFields, InvalidUUID, WrongContest, NotAccepting, ContestEnded}
  /\ Class(resp) \in Outcomes

\* C30: when every backend call returns or fails, every request that has
\* arrived is eventually answered; a request has its response exactly when
\* it has ended, the response is one of the outcomes, and it is never
\* replaced by another.
C30_EveryRequestAnswered ==
  /\ \A r \in 1..NumReq : (req[r].pc # "idle") ~> Done(r)
  /\ [](\A r \in Slots : /\ Done(r) <=> req[r].resp # NoResponse
                         /\ Done(r) => IsOutcome(req[r].resp))
  /\ [][\A r \in Slots : Done(r) => req'[r] = req[r]]_vars

\* C30 witness: one request was Accepted although its tally read failed and
\* another one, whose contest read failed, was answered 'Contest not found'
C30_Witness ==
  \E r \in Slots, q \in Slots :
    /\ Done(r) /\ req[r].resp = ContestNotFound /\ "contests.select" \in req[r].failed
    /\ Accepted(q) /\ "artworks.vote_count" \in req[q].failed

\* C24: at most one contest has status 'active', whatever contests were
\* created through POST /api/admin/contests.
C24_OneActiveContest ==
  Cardinality({c \in DOMAIN contests : contests[c].status = "active"}) <= 1

\* C27: one mounted VotingInterface never has more than one POST /api/vote
\* in flight, also when handleVote is called twice before the component
\* renders again.
C27_OnePostInFlight == Cardinality(ui.fetches) <= 1

====
